---- MODULE Spec2Model ----
(***************************************************************************)
(* The streaming PLY splat importer of brush-dataset                       *)
(* (crates/brush-dataset/src/splat_import.rs) as a state machine.          *)
(*                                                                         *)
(* load_splat_from_ply is an async generator: the model follows it from    *)
(* one suspension point to the next (header read, cooperative yield,       *)
(* emit, record read) and keeps the items it has handed to its consumer    *)
(* in `stream`, its terminal outcome in `result`.                           *)
(*                                                                         *)
(* Scaling.  The source emits an intermediate snapshot when                *)
(* i % 25000 == 24999 and yields when i % 500 == 0.  The model keeps both  *)
(* periods as the parameters update_every and yield_every and checks them  *)
(* at small values; every formula is stated in terms of the parameters.    *)
(***************************************************************************)
EXTENDS Integers, Sequences, FiniteSets, TLC

\* update_every of the source (25000 there), scaled.
update_every == 3
\* The yield period of the source (500 there), scaled.
yield_every == 2
\* Largest stride given as subsample_points.
MaxStride == 3
\* Largest number of f_rest_i properties a header declares.
MaxRest == 9
\* Largest element.count of the payloads that carry every property combination.
ShortCount == 2

\* Largest element.count of a vertex element: three periods and one record.
MaxCount == 3 * update_every + 1

----------------------------------------------------------------------------
(* Option<T>: None is the empty sequence, Some(v) the one-element one.     *)
None == << >>
Some(v) == << v >>
IsSome(o) == Len(o) = 1
Unwrap(o) == o[1]

Max(S) == CHOOSE m \in S : \A n \in S : n <= m

----------------------------------------------------------------------------
(* The file.                                                               *)

Encodings == {"Ascii", "BinaryBigEndian", "BinaryLittleEndian"}

\* The property groups a splat ply declares; a group stands for its
\* component properties (scale_0 for scale_0..2, rot_0 for rot_0..3,
\* f_dc_0 for f_dc_0..2, red for red/green/blue).
Required == {"x", "y", "z"}
Sentinels == {"scale_0", "rot_0", "opacity", "f_dc_0", "red"}

\* Float value of the property with code `c` in record i of the payload:
\* distinct for distinct (record, property), never 0 (the default).
FileValue(i, c) == (i + 1) * 100 + c

\* Quaternions (w, x, y, z) the payload carries in rot_0..rot_3, by record.
FileQuats == << <<1, 0, 0, 0>>, <<0, 3, 4, 0>>, <<0, 0, 0, 0>>, <<2, 2, 2, 2>> >>
FileQuat(i) == FileQuats[(i % Len(FileQuats)) + 1]

\* Value of the uchar colour property with code `c` in record i.
FileUChar(i, c) == (i * 7 + c) % 256

\* A header the byte source can carry: whether it declares a vertex
\* element, that element's property groups, the indices j of its f_rest_j
\* properties, its count and the payload encoding.  Both f_dc_0 and red
\* declared: red is taken to come later in the header, so it is set last.
\* The headers drawn: every combination of property groups on short
\* payloads, the bare and the full property list on payloads of every
\* length, each incomplete x/y/z list, and a header without vertex element.
PropertySets == {Required \cup o : o \in SUBSET Sentinels}
RestSets == {0 .. (m - 1) : m \in 0 .. MaxRest} \cup {{m} : m \in 1 .. (MaxRest - 1)}
FullNames == Required \cup (Sentinels \ {"red"})
Headers ==
    [vertex : {TRUE}, names : PropertySets, rest : RestSets,
     count : 1 .. ShortCount, encoding : {"BinaryLittleEndian"}]
    \cup
    [vertex : {TRUE}, names : {Required}, rest : {{}},
     count : 0 .. MaxCount, encoding : Encodings]
    \cup
    [vertex : {TRUE}, names : {FullNames}, rest : {0 .. (MaxRest - 1)},
     count : 0 .. MaxCount, encoding : Encodings]
    \cup
    [vertex : {TRUE}, names : {n \cup {"opacity"} : n \in (SUBSET Required) \ {Required}},
     rest : {{}}, count : {1}, encoding : {"Ascii"}]
    \cup
    [vertex : {FALSE}, names : {{}}, rest : {{}}, count : {0}, encoding : Encodings]

NoHeader == [vertex |-> FALSE, names |-> {}, rest |-> {}, count |-> 0, encoding |-> "Ascii"]

----------------------------------------------------------------------------
(* GaussianData: one parsed record.                                        *)

\* brush_render::render::rgb_to_sh applied to u / 255, in units of
\* 1 / (510 * C0): (u / 255 - 1/2) / C0 = (2u - 255) / (510 * C0).
rgb_to_sh(u) == 2 * u - 255

\* sh_coeffs_rest after set_property has run for every f_rest_j, j in rest:
\* resized with zeros up to the largest index set, the set entries written.
SetRest(i, rest) ==
    IF rest = {} THEN << >>
    ELSE [j \in 1 .. (Max(rest) + 1) |->
            IF (j - 1) \in rest THEN FileValue(i, 20 + (j - 1)) ELSE 0]

\* PropertyAccess::new followed by set_property for each declared property
\* of record i.
ParseElement(i, names, rest) ==
    [means |-> << IF "x" \in names THEN FileValue(i, 1) ELSE 0,
                  IF "y" \in names THEN FileValue(i, 2) ELSE 0,
                  IF "z" \in names THEN FileValue(i, 3) ELSE 0 >>,
     scale |-> IF "scale_0" \in names
               THEN << FileValue(i, 4), FileValue(i, 5), FileValue(i, 6) >>
               ELSE << 0, 0, 0 >>,
     opacity |-> IF "opacity" \in names THEN FileValue(i, 7) ELSE 0,
     rotation |-> IF "rot_0" \in names THEN FileQuat(i) ELSE << 1, 0, 0, 0 >>,
     sh_dc |-> IF "red" \in names
               THEN << rgb_to_sh(FileUChar(i, 15)), rgb_to_sh(FileUChar(i, 16)),
                       rgb_to_sh(FileUChar(i, 17)) >>
               ELSE IF "f_dc_0" \in names
               THEN << FileValue(i, 12), FileValue(i, 13), FileValue(i, 14) >>
               ELSE << 0, 0, 0 >>,
     sh_coeffs_rest |-> SetRest(i, rest)]

\* Quat::normalize: q scaled by 1 / |q|, kept exactly as the pair (q, |q|^2).
\* len2 = 0 is the division by zero of the all-zero quaternion.
normalize(q) ==
    [v |-> q, len2 |-> q[1] * q[1] + q[2] * q[2] + q[3] * q[3] + q[4] * q[4]]

\* interleave_coeffs without the transposition: the rest kept channel-major.
interleave_coeffs_ChannelMajor(sh_dc, sh_rest) == sh_dc \o sh_rest

\* interleave_coeffs: the DC triple, then for each coefficient i below
\* len / 3 the three channel values sh_rest[j * coeffs_per_channel + i].
interleave_coeffs(sh_dc, sh_rest) ==
    LET channels == 3
        coeffs_per_channel == Len(sh_rest) \div channels
    IN  sh_dc \o [k \in 1 .. (coeffs_per_channel * channels) |->
                    LET i == (k - 1) \div channels
                        j == (k - 1) % channels
                    IN  sh_rest[j * coeffs_per_channel + i + 1]]

----------------------------------------------------------------------------
(* Splats.                                                                 *)

\* Splats::from_raw: the collection built from the five accumulators.
from_raw(m, r, s, sh, o) ==
    [means |-> m, rotation |-> r, scales |-> s, sh_coeffs |-> sh, opacity |-> o]

num_splats(splats) == Len(splats.means)

\* The items of the stream: Ok(splats) for each emitter.emit(splats), with
\* the place that emitted it (the update inside the loop or the final emit
\* after it), and Err(e) for the error the generator returned.
Ok(splats, final) == [ok |-> TRUE, splats |-> splats, final |-> final, err |-> ""]
Err(msg) ==
    [ok |-> FALSE, splats |-> from_raw(<< >>, None, None, None, None),
     final |-> FALSE, err |-> msg]

----------------------------------------------------------------------------
(* load_splat_from_ply.                                                    *)

VARIABLES
    subsample_points,  \* Option<u32>: the stride argument
    pc,                \* where the generator is suspended
    header,            \* the parsed header (NoHeader before it is read)
    i,                 \* the record loop's index
    nread,             \* records taken from the byte source so far
    means, rotation, scales, sh_coeffs, opacity,   \* the accumulators
    stream,            \* the items the stream has yielded, in order
    result,            \* "running", "ok" (stream ended), "err", "panic"
    source_ended,      \* the byte source ended inside the payload
    await              \* the await the generator last suspended at

\* The compute client as SplatKernel::execute and KernelSource::source use it.
VARIABLES
    kernel,            \* Option of the kernel value `self`
    call,              \* Option of the arguments of the latest execute
    submitted,         \* what that call gave to client.execute, in order
    created,           \* what that call uploaded with client.create, in order
    composed           \* the shader defines the latest source() gave to the composer

\* The viewer: process_loop, the task of start_data_load, the channel, the UI.
VARIABLES
    vpc,               \* where process_loop is suspended
    picked,            \* the kind of the picked file
    out,               \* the messages process_loop has yielded, in order
    queue,             \* the messages in the bounded(1) channel
    receiver,          \* the receiving end: "none", "open" or "dropped"
    task,              \* the spawned future: "none", "running", "sending", "finished"
    received,          \* the messages the UI has taken with try_recv, in order
    dropped_at         \* Option of the record index i when the receiver was dropped

importer == << subsample_points, pc, header, i, nread, means, rotation, scales,
              sh_coeffs, opacity, stream, result, source_ended, await >>

dispatch == << kernel, call, submitted, created, composed >>

viewer == << vpc, picked, out, queue, receiver, task, received, dropped_at >>

\* The train channel of start_data_load and send_train_message.
VARIABLES
    sender,            \* Option of the sending end kept in self.sender
    train_channel,     \* the channel behind it: its queue, capacity, closed flag
    try_sent           \* the outcome of the latest send_train_message, and a
                       \* bit that every call flips

\* BurnTexture and the renderer and encoder update_texture is given.
VARIABLES
    state,             \* Option<TextureState>: the texture and its id
    renderer,          \* the renderer's registered textures, by TextureId
    textures,          \* the number of textures made with create_texture
    tensors,           \* the (width, height) of the tensor of each call, in order
    returned,          \* what each call returned, in order
    recorded           \* what the latest call did on the client and the encoder

train == << sender, train_channel, try_sent >>

texture == << state, renderer, textures, tensors, returned, recorded >>

vars == << importer, dispatch, viewer, train, texture >>

accumulators == << means, rotation, scales, sh_coeffs, opacity >>

\* What is not the importer's: left alone by every step of the generator.
outside == << dispatch, viewer, train, texture >>

\* No kernel has been built or executed.
NoDispatch ==
    /\ kernel = << >>
    /\ call = << >>
    /\ submitted = << >>
    /\ created = << >>
    /\ composed = << >>

\* No load has been started by the viewer.
NoLoad ==
    /\ vpc = "idle"
    /\ picked = ""
    /\ out = << >>
    /\ queue = << >>
    /\ receiver = "none"
    /\ task = "none"
    /\ received = << >>
    /\ dropped_at = << >>

\* No train channel exists and send_train_message has not been called.
NoTrain ==
    /\ sender = << >>
    /\ train_channel = [queue |-> << >>, cap |-> << >>, closed |-> TRUE]
    /\ try_sent = [result |-> "none", flip |-> FALSE]

\* BurnTexture::new, with a renderer that holds no texture.
NoTexture ==
    /\ state = << >>
    /\ renderer = << >>
    /\ textures = 0
    /\ tensors = << >>
    /\ returned = << >>
    /\ recorded = << >>

\* No kernel has been executed, no load has been started, no texture made.
Idle == NoDispatch /\ NoLoad /\ NoTrain /\ NoTexture

\* The generator as load_splat_from_ply returns it: nothing has run yet.
Created ==
    /\ pc = "header"
    /\ header = NoHeader
    /\ i = 0
    /\ nread = 0
    /\ means = << >>
    /\ rotation = None
    /\ scales = None
    /\ sh_coeffs = None
    /\ opacity = None
    /\ stream = << >>
    /\ result = "running"
    /\ source_ended = FALSE
    /\ await = "none"

Init ==
    /\ subsample_points \in {None} \cup {Some(s) : s \in 0 .. MaxStride}
    /\ Created
    /\ Idle

\* An error handed to the consumer without leaving the generator.
Fail_Continues(msg) ==
    /\ result' = result
    /\ stream' = Append(stream, Err(msg))
    /\ pc' = pc

\* `Err(..)?` and a failed `..?`: the stream yields the error and ends.
Fail(msg) ==
    /\ result' = "err"
    /\ stream' = Append(stream, Err(msg))
    /\ pc' = "done"

\* (3 + max index of the f_rest_ properties, or 0) as usize.
n_sh_coeffs(h) == 3 + (IF h.rest = {} THEN 0 ELSE Max(h.rest))

\* The x/y/z test with `all` for `any`: only a header lacking all three fails.
MissingRequired_All(names) == \A p \in Required : p \notin names

\* `["x", "y", "z"].into_iter().any(|p| !properties.contains(p))`.
MissingRequired(names) == \E p \in Required : p \notin names

\* ReadHeader with the SH vector allocated for f_dc_0 only, not for red.
ReadHeader_ShFromDcOnly ==
    /\ pc = "header"
    /\ result = "running"
    /\ \/ /\ Fail("read_header")
          /\ UNCHANGED << header, accumulators >>
       \/ \E h \in Headers :
            /\ header' = h
            /\ IF ~h.vertex
               THEN /\ result' = "ok"
                    /\ pc' = "done"
                    /\ UNCHANGED << accumulators, stream >>
               ELSE IF MissingRequired(h.names)
               THEN /\ Fail("Invalid splat ply. Missing properties!")
                    /\ UNCHANGED accumulators
               ELSE /\ means' = << >>
                    /\ scales' = IF "scale_0" \in h.names THEN Some(<< >>) ELSE None
                    /\ rotation' = IF "rot_0" \in h.names THEN Some(<< >>) ELSE None
                    /\ sh_coeffs' = IF "f_dc_0" \in h.names THEN Some(<< >>) ELSE None
                    /\ opacity' = IF "opacity" \in h.names THEN Some(<< >>) ELSE None
                    /\ pc' = "loop"
                    /\ UNCHANGED << result, stream >>
    /\ await' = "read_header"
    /\ UNCHANGED << subsample_points, i, nread, source_ended >>
    /\ UNCHANGED outside

\* read_header, the search for the vertex element, the x/y/z test and the
\* allocation of the accumulators.
ReadHeader ==
    /\ pc = "header"
    /\ result = "running"
    /\ \/ /\ Fail("read_header")
          /\ UNCHANGED << header, accumulators >>
       \/ \E h \in Headers :
            /\ header' = h
            /\ IF ~h.vertex
               THEN /\ result' = "ok"
                    /\ pc' = "done"
                    /\ UNCHANGED << accumulators, stream >>
               ELSE IF MissingRequired(h.names)
               THEN /\ Fail("Invalid splat ply. Missing properties!")
                    /\ UNCHANGED accumulators
               ELSE /\ means' = << >>
                    /\ scales' = IF "scale_0" \in h.names THEN Some(<< >>) ELSE None
                    /\ rotation' = IF "rot_0" \in h.names THEN Some(<< >>) ELSE None
                    /\ sh_coeffs' = IF "f_dc_0" \in h.names \/ "red" \in h.names
                                    THEN Some(<< >>) ELSE None
                    /\ opacity' = IF "opacity" \in h.names THEN Some(<< >>) ELSE None
                    /\ pc' = "loop"
                    /\ UNCHANGED << result, stream >>
    /\ await' = "read_header"
    /\ UNCHANGED << subsample_points, i, nread, source_ended >>
    /\ UNCHANGED outside

\* The cooperative yield replaced by a wait on a timer.
Yield_Sleeps ==
    /\ pc = "loop"
    /\ i < header.count
    /\ i % yield_every = 0
    /\ pc' = "yielded"
    /\ await' = "sleep"
    /\ UNCHANGED << subsample_points, header, i, nread, accumulators, stream,
                    result, source_ended >>
    /\ UNCHANGED outside

\* Top of iteration i: `if i % 500 == 0 { yield_now().await }`.
Yield ==
    /\ pc = "loop"
    /\ i < header.count
    /\ i % yield_every = 0
    /\ pc' = "yielded"
    /\ await' = "yield_now"
    /\ UNCHANGED << subsample_points, header, i, nread, accumulators, stream,
                    result, source_ended >>
    /\ UNCHANGED outside

\* The generator stands before the update test of iteration i.
AtUpdateTest ==
    \/ pc = "yielded"
    \/ pc = "loop" /\ i < header.count /\ i % yield_every # 0

\* The update test taken at the start of each period: `i % update_every == 0`.
UpdateDue_AtPeriodStart(k) == k % update_every = 0

\* `if i % update_every == update_every - 1`.
UpdateDue(k) == k % update_every = update_every - 1

\* The clone of the accumulators wrapped into a fresh collection and emitted.
EmitUpdate ==
    /\ AtUpdateTest
    /\ UpdateDue(i)
    /\ stream' = Append(stream,
                         Ok(from_raw(means, rotation, scales, sh_coeffs, opacity), FALSE))
    /\ pc' = "read"
    /\ await' = "emit"
    /\ UNCHANGED << subsample_points, header, i, nread, accumulators,
                    result, source_ended >>
    /\ UNCHANGED outside

\* The generator stands before the read of record i.
AtRead ==
    \/ pc = "read"
    \/ AtUpdateTest /\ ~UpdateDue(i)

\* The stride test counting records from 1.
Skipped_OneBased(k) == IsSome(subsample_points) /\ (k + 1) % Unwrap(subsample_points) # 0

\* `if let Some(subsample) = subsample_points { if i % subsample != 0 { continue } }`
\* for a stride that is not 0.
Skipped(k) == IsSome(subsample_points) /\ k % Unwrap(subsample_points) # 0

\* The pushes of one record made at the front of each vector.
Push_Prepends(splat) ==
    /\ means' = << splat.means >> \o means
    /\ scales' = IF IsSome(scales) THEN Some(<< splat.scale >> \o Unwrap(scales)) ELSE scales
    /\ rotation' = IF IsSome(rotation)
                   THEN Some(<< normalize(splat.rotation) >> \o Unwrap(rotation))
                   ELSE rotation
    /\ opacity' = IF IsSome(opacity)
                  THEN Some(<< splat.opacity >> \o Unwrap(opacity)) ELSE opacity
    /\ sh_coeffs' = IF IsSome(sh_coeffs)
                    THEN Some(interleave_coeffs(splat.sh_dc, splat.sh_coeffs_rest)
                              \o Unwrap(sh_coeffs))
                    ELSE sh_coeffs

\* The pushes of one record, leaving out a rotation of length 0.
Push_DropsZeroRotation(splat) ==
    /\ means' = Append(means, splat.means)
    /\ scales' = IF IsSome(scales) THEN Some(Append(Unwrap(scales), splat.scale)) ELSE scales
    /\ rotation' = IF IsSome(rotation) /\ normalize(splat.rotation).len2 # 0
                   THEN Some(Append(Unwrap(rotation), normalize(splat.rotation)))
                   ELSE rotation
    /\ opacity' = IF IsSome(opacity)
                  THEN Some(Append(Unwrap(opacity), splat.opacity)) ELSE opacity
    /\ sh_coeffs' = IF IsSome(sh_coeffs)
                    THEN Some(Unwrap(sh_coeffs)
                              \o interleave_coeffs(splat.sh_dc, splat.sh_coeffs_rest))
                    ELSE sh_coeffs

\* The pushes of one accepted record.
Push(splat) ==
    /\ means' = Append(means, splat.means)
    /\ scales' = IF IsSome(scales) THEN Some(Append(Unwrap(scales), splat.scale)) ELSE scales
    /\ rotation' = IF IsSome(rotation)
                   THEN Some(Append(Unwrap(rotation), normalize(splat.rotation)))
                   ELSE rotation
    /\ opacity' = IF IsSome(opacity)
                  THEN Some(Append(Unwrap(opacity), splat.opacity)) ELSE opacity
    /\ sh_coeffs' = IF IsSome(sh_coeffs)
                    THEN Some(Unwrap(sh_coeffs)
                              \o interleave_coeffs(splat.sh_dc, splat.sh_coeffs_rest))
                    ELSE sh_coeffs

\* What the read of one record fails with when the payload gives none:
\* read_line returns an empty line at the end of an ascii source and
\* read_ascii_element rejects it; a binary read fails with the i/o error.
ReadError(encoding, how) ==
    IF how = "io" THEN "io error"
    ELSE IF encoding = "Ascii" THEN "read_ascii_element"
    ELSE "unexpected end of file"

\* The end of the source taken for the end of the records: the loop is left.
SourceFails_EofEndsLoop(how) ==
    /\ how = "bad" => header.encoding = "Ascii"
    /\ IF how = "eof"
       THEN /\ i' = header.count
            /\ pc' = "loop"
            /\ UNCHANGED << result, stream >>
       ELSE /\ Fail(ReadError(header.encoding, how))
            /\ UNCHANGED i
    /\ source_ended' = (how = "eof")
    /\ UNCHANGED << nread, accumulators >>

\* The read of record i finds no record: the source has ended ("eof"),
\* fails ("io"), or holds a line that is no record ("bad", ascii only).
SourceFails(how) ==
    /\ how = "bad" => header.encoding = "Ascii"
    /\ Fail(ReadError(header.encoding, how))
    /\ source_ended' = (how = "eof")
    /\ UNCHANGED << i, nread, accumulators >>

\* Record i is read and parsed, then skipped by the stride or pushed.
\* `i % subsample` with a stride of 0 panics.
ReadElement ==
    /\ AtRead
    /\ \/ \E how \in {"eof", "io", "bad"} : SourceFails(how)
       \/ /\ nread' = nread + 1
          /\ source_ended' = source_ended
          /\ IF subsample_points = Some(0)
             THEN /\ result' = "panic"
                  /\ pc' = "done"
                  /\ UNCHANGED << i, accumulators, stream >>
             ELSE /\ IF Skipped(i)
                     THEN UNCHANGED accumulators
                     ELSE Push(ParseElement(i, header.names, header.rest))
                  /\ i' = i + 1
                  /\ pc' = "loop"
                  /\ UNCHANGED << result, stream >>
    /\ await' = "read"
    /\ UNCHANGED << subsample_points, header >>
    /\ UNCHANGED outside

\* The final emit without the test for an empty collection.
EmitFinal_EmitsEmpty ==
    /\ pc = "loop"
    /\ i = header.count
    /\ stream' = Append(stream, Ok(from_raw(means, rotation, scales, sh_coeffs, opacity), TRUE))
    /\ pc' = "tail"
    /\ await' = "emit"
    /\ UNCHANGED << subsample_points, header, i, nread, accumulators, result,
                    source_ended >>
    /\ UNCHANGED outside

\* After the loop: the final collection, refused when it holds no splat.
EmitFinal ==
    /\ pc = "loop"
    /\ i = header.count
    /\ LET splats == from_raw(means, rotation, scales, sh_coeffs, opacity)
       IN  IF num_splats(splats) = 0
           THEN /\ Fail("No splats found")
                /\ UNCHANGED await
           ELSE /\ stream' = Append(stream, Ok(splats, TRUE))
                /\ pc' = "tail"
                /\ await' = "emit"
                /\ UNCHANGED result
    /\ UNCHANGED << subsample_points, header, i, nread, accumulators, source_ended >>
    /\ UNCHANGED outside

\* `Ok(())`: the stream ends.
Return ==
    /\ pc = "tail"
    /\ result' = "ok"
    /\ pc' = "done"
    /\ UNCHANGED << subsample_points, header, i, nread, accumulators, stream,
                    source_ended, await >>
    /\ UNCHANGED outside

Next ==
    \/ ReadHeader
    \/ Yield
    \/ EmitUpdate
    \/ ReadElement
    \/ EmitFinal
    \/ Return

Spec == Init /\ [][Next]_vars

----------------------------------------------------------------------------
(* kernels.rs: SplatKernel::execute and kernel_source_gen!.                *)

\* Identifiers are the sequences of the ASCII codes of their characters.
raster_u32 == << 114, 97, 115, 116, 101, 114, 95, 117, 51, 50 >>

\* The kernels generated by kernel_source_gen!: the struct's name, its bool
\* fields in order, and size_of::<Uniforms>(), 0 for the unit type `()`.
\* The uniform structs come from the shader modules; each holds data.
Kernels ==
    { [name |-> n, fields |-> << >>, size_of_Uniforms |-> 0] :
        n \in {"GetTileBinEdges", "PrefixSumScan", "PrefixSumScanSums",
               "PrefixSumAddScannedSums", "SortReduce", "SortScanAdd", "SortScan"} }
    \cup
    { [name |-> n, fields |-> << >>, size_of_Uniforms |-> 16] :
        n \in {"ProjectSplats", "MapGaussiansToIntersect", "RasterizeBackwards",
               "ProjectBackwards", "SortCount", "SortScatter"} }
    \cup
    { [name |-> "Rasterize", fields |-> << raster_u32 >>, size_of_Uniforms |-> 16] }

\* MAIN_WORKGROUP_SIZE of a shader module: three u32 of at least 1.
WorkgroupSizes ==
    { << 16, 16, 1 >>, << 256, 1, 1 >>, << 1, 1, 1 >>, << 3, 5, 64 >> }

\* The `executions` a caller passes: [u32; 3], with values up to 2^31 - 1.
Executions ==
    { << 1920, 1080, 1 >>, << 0, 0, 0 >>, << 1, 17, 2147483392 >>,
      << 16, 15, 257 >>, << 2147483000, 2147483392, 33 >> }

\* Bindings the caller owns, and the slices of them a caller passes.
Handle(n) == [buffer |-> "caller", id |-> n]
ReadHandles ==
    { << >>, << Handle(1) >>, << Handle(1), Handle(2) >>, << Handle(2), Handle(1) >> }
WriteHandles ==
    { << >>, << Handle(3) >>, << Handle(3), Handle(1) >> }

\* Values of a uniform struct; `()` is the only value of the unit type.
UniformValues(self) == IF self.size_of_Uniforms = 0 THEN {"()"} ELSE {"u", "v"}

\* u32::div_ceil without the rounding up.
div_ceil_Floor(a, b) == a \div b

\* u32::div_ceil: the quotient, plus one when the remainder is not zero.
div_ceil(a, b) ==
    LET d == a \div b
        r == a % b
    IN  IF r > 0 THEN d + 1 ELSE d

\* The binding list with the writes put before the reads.
total_handles_WritesFirst(uniform_data, read_handles, write_handles) ==
    uniform_data \o write_handles \o read_handles

\* `[[uniform_data].as_slice(), read_handles, write_handles].concat()`, and
\* `[read_handles, write_handles].concat()` when uniform_data is empty.
total_handles(uniform_data, read_handles, write_handles) ==
    uniform_data \o read_handles \o write_handles

\* str::to_uppercase on an ASCII identifier: a..z become A..Z.
to_uppercase(s) ==
    [j \in 1 .. Len(s) |-> IF s[j] \in 97 .. 122 THEN s[j] - 32 ELSE s[j]]

Bool(b) == [Bool |-> b]

\* HashMap::insert on a map kept as its set of (key, value) pairs.
insert(map, key, value) == {e \in map : e[1] # key} \cup {<< key, value >>}

\* The macro's repetition over the fields: `if self.$field_name { insert }`.
RECURSIVE insert_fields(_, _, _)
insert_fields(map, fields, values) ==
    IF fields = << >> THEN map
    ELSE insert_fields(IF Head(values)
                       THEN insert(map, to_uppercase(Head(fields)), Bool(TRUE))
                       ELSE map,
                       Tail(fields), Tail(values))

\* create_shader_hashmap with a define for every field, true or false.
create_shader_hashmap_EveryField(self) ==
    {<< to_uppercase(self.fields[j]), Bool(TRUE) >> : j \in 1 .. Len(self.fields)}

create_shader_hashmap(self) == insert_fields({}, self.fields, self.values)

\* `$struct_name::new(flags)` of one of the generated kernels.
New ==
    /\ kernel = None
    /\ \E k \in Kernels, w \in WorkgroupSizes :
       \E values \in [1 .. Len(k.fields) -> BOOLEAN] :
          kernel' = Some([name |-> k.name, fields |-> k.fields, values |-> values,
                          size_of_Uniforms |-> k.size_of_Uniforms,
                          WORKGROUP_SIZE |-> w])
    /\ UNCHANGED << call, submitted, created, composed >>
    /\ UNCHANGED << importer, viewer, train, texture >>

\* SplatKernel::execute.
Execute ==
    /\ IsSome(kernel)
    /\ LET self == Unwrap(kernel)
       IN  \E uniforms \in UniformValues(self), read_handles \in ReadHandles,
              write_handles \in WriteHandles, executions \in Executions :
             LET group_size == self.WORKGROUP_SIZE
                 execs == << div_ceil(executions[1], group_size[1]),
                             div_ceil(executions[2], group_size[2]),
                             div_ceil(executions[3], group_size[3]) >>
                 source_kernel == [source |-> self.name, work_group |-> execs,
                                   workgroup_size |-> group_size]
                 uniform_data == [buffer |-> "created", id |-> 1]
             IN  /\ call' = Some([uniforms |-> uniforms, read_handles |-> read_handles,
                                  write_handles |-> write_handles,
                                  executions |-> executions])
                 /\ IF self.size_of_Uniforms # 0
                    THEN /\ created' = << uniforms >>
                         /\ submitted' =
                               << [kernel |-> source_kernel,
                                   bindings |-> total_handles(<< uniform_data >>,
                                                              read_handles, write_handles)] >>
                    ELSE /\ created' = << >>
                         /\ submitted' =
                               << [kernel |-> source_kernel,
                                   bindings |-> total_handles(<< >>, read_handles,
                                                              write_handles)] >>
    /\ UNCHANGED << kernel, composed >>
    /\ UNCHANGED << importer, viewer, train, texture >>

\* KernelSource::source: the defines go to load_shader_modules_embedded and
\* to load_naga_module_embedded.
Source ==
    /\ IsSome(kernel)
    /\ LET shader_defs == create_shader_hashmap(Unwrap(kernel))
       IN  composed' = << shader_defs, shader_defs >>
    /\ UNCHANGED << kernel, call, submitted, created >>
    /\ UNCHANGED << importer, viewer, train, texture >>

KernelInit ==
    /\ subsample_points = None
    /\ Created
    /\ Idle

KernelNext ==
    \/ New
    \/ Execute
    \/ Source

KernelSpec == KernelInit /\ [][KernelNext]_vars

----------------------------------------------------------------------------
(* viewer.rs: process_loop, the task spawned by start_data_load over the   *)
(* bounded(1) channel, and the UI's update.                                *)

\* ViewerMessage.  `item` is the index in `stream` of the item a message
\* carries (0 for none): Splats holds the snapshot stream[item], an Error
\* made by `splats?` holds the error stream[item].
PickFile == [type |-> "PickFile", training |-> FALSE, item |-> 0, err |-> ""]
StartLoading(training) ==
    [type |-> "StartLoading", training |-> training, item |-> 0, err |-> ""]
Splats(k) == [type |-> "Splats", training |-> FALSE, item |-> k, err |-> ""]
Error(msg, k) == [type |-> "Error", training |-> FALSE, item |-> k, err |-> msg]

\* `bounded(1)`.
Capacity == 1

\* The items of the splat stream process_loop has taken with next().
Taken == Cardinality({k \in 1 .. Len(out) : out[k].item > 0})

\* The message the task's pending `sender.send(m)` holds.
Held == out[Len(out)]

\* async_std::channel::bounded(1) in the place of unbounded().
unbounded_Bounded == [queue |-> << >>, cap |-> Some(1), closed |-> FALSE]

\* async_std::channel::unbounded(): an open, empty channel without capacity.
unbounded == [queue |-> << >>, cap |-> None, closed |-> FALSE]

\* start_data_load: both channels are made, the train sender and the
\* receiver kept in place of those of an earlier load, the future spawned.
\* The task, process_loop and the generator followed from here on are
\* those of this load; process_loop has not been polled yet.
StartDataLoad ==
    /\ train_channel' = unbounded
    /\ sender' = Some("train_sender")
    /\ receiver' = "open"
    /\ queue' = << >>
    /\ received' = << >>
    /\ dropped_at' = None
    /\ task' = "running"
    /\ vpc' = "start"
    /\ picked' = ""
    /\ out' = << >>
    /\ pc' = "header"
    /\ header' = NoHeader
    /\ i' = 0
    /\ nread' = 0
    /\ means' = << >>
    /\ rotation' = None
    /\ scales' = None
    /\ sh_coeffs' = None
    /\ opacity' = None
    /\ stream' = << >>
    /\ result' = "running"
    /\ source_ended' = FALSE
    /\ await' = "none"
    /\ UNCHANGED << subsample_points, try_sent >>
    /\ UNCHANGED << dispatch, texture >>

\* The first start_data_load of a viewer.
FirstDataLoad ==
    /\ task = "none"
    /\ StartDataLoad

\* process_loop: `emitter.emit(ViewerMessage::PickFile).await`.
EmitPickFile ==
    /\ task = "running"
    /\ vpc = "start"
    /\ out' = Append(out, PickFile)
    /\ vpc' = "pick"
    /\ task' = "sending"
    /\ UNCHANGED << picked, queue, receiver, received, dropped_at >>
    /\ UNCHANGED << importer, dispatch, train, texture >>

\* PickedFile with a file of another kind loaded like a .ply file.
PickedFile_LoadsAnyFile ==
    /\ task = "running"
    /\ vpc = "pick"
    /\ \E p \in {"failed", "ply", "zip", "other"} :
          /\ picked' = p
          /\ out' = Append(out,
                CASE p = "failed" -> Error("pick_file", 0)
                  [] p = "zip" -> StartLoading(TRUE)
                  [] OTHER -> StartLoading(FALSE))
          /\ vpc' = CASE p = "failed" -> "done"
                      [] p = "zip" -> "training"
                      [] OTHER -> "loading"
    /\ task' = "sending"
    /\ UNCHANGED << queue, receiver, received, dropped_at >>
    /\ UNCHANGED << importer, dispatch, train, texture >>

\* process_loop: `rrfd::pick_file().await?` and the branch on the file name.
\* The messages of train_loop are not followed.
PickedFile ==
    /\ task = "running"
    /\ vpc = "pick"
    /\ \E p \in {"failed", "ply", "zip", "other"} :
          /\ picked' = p
          /\ out' = Append(out,
                CASE p = "failed" -> Error("pick_file", 0)
                  [] p = "ply" -> StartLoading(FALSE)
                  [] p = "zip" -> StartLoading(TRUE)
                  [] OTHER -> Error("Only .ply and .zip files are supported.", 0))
          /\ vpc' = CASE p = "ply" -> "loading"
                      [] p = "zip" -> "training"
                      [] OTHER -> "done"
    /\ task' = "sending"
    /\ UNCHANGED << queue, receiver, received, dropped_at >>
    /\ UNCHANGED << importer, dispatch, train, texture >>

\* `splat_stream.next().await`: the task polls process_loop, which polls the
\* generator of load_splat_from_ply up to its next suspension.
PollSplatStream ==
    /\ task = "running"
    /\ vpc = "loading"
    /\ Taken = Len(stream)
    /\ Next

\* The body of `while let Some(splats) = splat_stream.next().await`: the
\* snapshot is emitted as Splats; `splats?` on an error ends process_loop
\* with that error, which the task maps to ViewerMessage::Error.
EmitSplats ==
    /\ task = "running"
    /\ vpc = "loading"
    /\ Taken < Len(stream)
    /\ LET k == Taken + 1
       IN  IF stream[k].ok
           THEN /\ out' = Append(out, Splats(k))
                /\ UNCHANGED vpc
           ELSE /\ out' = Append(out, Error(stream[k].err, k))
                /\ vpc' = "done"
    /\ task' = "sending"
    /\ UNCHANGED << picked, queue, receiver, received, dropped_at >>
    /\ UNCHANGED << importer, dispatch, train, texture >>

\* `stream.next().await` gives None: the splat stream has ended and
\* process_loop returns, or process_loop has ended with an error already
\* sent.  The task ends and drops its sender; a channel without a receiver
\* is freed with what it holds.
StreamEnds ==
    /\ task = "running"
    /\ \/ vpc = "done"
       \/ vpc = "loading" /\ pc = "done" /\ Taken = Len(stream)
    /\ vpc' = "done"
    /\ task' = "finished"
    /\ queue' = IF receiver = "dropped" THEN << >> ELSE queue
    /\ train_channel' = [train_channel EXCEPT !.closed = TRUE]
    /\ UNCHANGED << picked, out, receiver, received, dropped_at, sender, try_sent >>
    /\ UNCHANGED << importer, dispatch, texture >>

\* `sender.send(m).await` on a channel that never fills.
Send_Unbounded ==
    /\ task = "sending"
    /\ IF receiver = "dropped"
       THEN /\ task' = "finished"
            /\ queue' = << >>
            /\ train_channel' = [train_channel EXCEPT !.closed = TRUE]
       ELSE /\ queue' = Append(queue, Held)
            /\ task' = "running"
            /\ UNCHANGED train_channel
    /\ UNCHANGED << vpc, picked, out, receiver, received, dropped_at, sender, try_sent >>
    /\ UNCHANGED << importer, dispatch, texture >>

\* `if sender.send(m).await.is_err() { break; }`: the send fails when the
\* channel is closed, completes when the channel has room, waits otherwise.
Send ==
    /\ task = "sending"
    /\ IF receiver = "dropped"
       THEN /\ task' = "finished"
            /\ queue' = << >>
            /\ train_channel' = [train_channel EXCEPT !.closed = TRUE]
       ELSE /\ Len(queue) < Capacity
            /\ queue' = Append(queue, Held)
            /\ task' = "running"
            /\ UNCHANGED train_channel
    /\ UNCHANGED << vpc, picked, out, receiver, received, dropped_at, sender, try_sent >>
    /\ UNCHANGED << importer, dispatch, texture >>

\* Viewer::update: one `rec.try_recv()` that finds a message.
TryRecv ==
    /\ receiver = "open"
    /\ queue # << >>
    /\ received' = Append(received, Head(queue))
    /\ queue' = Tail(queue)
    /\ UNCHANGED << vpc, picked, out, receiver, task, dropped_at >>
    /\ UNCHANGED << importer, dispatch, train, texture >>

\* The receiver is dropped (a new start_data_load replaces it, or the viewer
\* goes away): the channel is closed.
DropReceiver ==
    /\ receiver = "open"
    /\ receiver' = "dropped"
    /\ dropped_at' = Some(i)
    /\ queue' = IF task = "finished" THEN << >> ELSE queue
    /\ UNCHANGED << vpc, picked, out, task, received >>
    /\ UNCHANGED << importer, dispatch, train, texture >>

ViewerInit ==
    /\ subsample_points = None
    /\ Created
    /\ Idle

ViewerNext ==
    \/ FirstDataLoad
    \/ EmitPickFile
    \/ PickedFile
    \/ PollSplatStream
    \/ EmitSplats
    \/ StreamEnds
    \/ Send
    \/ TryRecv
    \/ DropReceiver

ViewerSpec == ViewerInit /\ [][ViewerNext]_vars

----------------------------------------------------------------------------
(* viewer.rs: send_train_message and the train channel.                    *)

\* Largest number of messages left in the train channel.
MaxTrain == 4

\* The TrainMessage values a caller sends.
TrainMessages == {"Paused(true)", "Paused(false)"}

\* Sender::try_send on channel ch: Closed on a closed channel, Full on a
\* bounded channel at capacity, Ok otherwise.
try_send(ch) ==
    IF ch.closed THEN "Closed"
    ELSE IF IsSome(ch.cap) /\ Len(ch.queue) >= Unwrap(ch.cap) THEN "Full"
    ELSE "Ok"

\* send_train_message: nothing without a sender; else try_send, whose Full
\* is the unreachable!() branch.
SendTrainMessage ==
    /\ Len(train_channel.queue) < MaxTrain
    /\ \E message \in TrainMessages :
          IF IsSome(sender)
          THEN LET r == try_send(train_channel)
               IN  /\ try_sent' = [result |-> r, flip |-> ~try_sent.flip]
                   /\ train_channel' =
                         IF r = "Ok"
                         THEN [train_channel EXCEPT !.queue = Append(@, message)]
                         ELSE train_channel
          ELSE /\ try_sent' = [result |-> "noop", flip |-> ~try_sent.flip]
               /\ UNCHANGED train_channel
    /\ UNCHANGED sender
    /\ UNCHANGED << importer, dispatch, viewer, texture >>

\* The training side takes a message from train_receiver.
TrainRecv ==
    /\ ~train_channel.closed
    /\ train_channel.queue # << >>
    /\ train_channel' = [train_channel EXCEPT !.queue = Tail(@)]
    /\ UNCHANGED << sender, try_sent >>
    /\ UNCHANGED << importer, dispatch, viewer, texture >>

\* process_loop, which owns train_receiver, ends or is dropped: the train
\* channel is closed.
TrainReceiverDropped ==
    /\ IsSome(sender)
    /\ ~train_channel.closed
    /\ train_channel' = [train_channel EXCEPT !.closed = TRUE]
    /\ UNCHANGED << sender, try_sent >>
    /\ UNCHANGED << importer, dispatch, viewer, texture >>

TrainInit ==
    /\ subsample_points = None
    /\ Created
    /\ Idle

TrainNext ==
    \/ StartDataLoad
    \/ SendTrainMessage
    \/ TrainRecv
    \/ TrainReceiverDropped

TrainSpec == TrainInit /\ [][TrainNext]_vars

----------------------------------------------------------------------------
(* burn_texture.rs: BurnTexture::update_texture and copy_buffer_to_texture. *)

\* Largest number of update_texture calls followed.
MaxCalls == 4

\* The (width, height) of the tensors given to update_texture.
TensorSizes ==
    { << 64, 64 >>, << 64, 32 >>, << 65, 64 >>, << 100, 32 >>, << 128, 64 >> }

\* copy_buffer_to_texture with the Flush made on the padded path only.
copy_buffer_to_texture_SyncOnPadded(img, tex) ==
    LET width == img[1]
        height == img[2]
        row == div_ceil(width, 64) * 64
        last == << [op |-> "get_resource",
                    buffer |-> IF width % 64 # 0 THEN "padded" ELSE "img"],
                   [op |-> "copy_buffer_to_texture", bytes_per_row |-> 4 * row,
                    extent |-> << width, height >>, texture |-> tex.serial] >>
    IN  IF width % 64 # 0
        THEN << [op |-> "zeros", shape |-> << height, row >>],
                [op |-> "slice_assign", shape |-> << height, width >>],
                [op |-> "sync", type |-> "Flush"] >> \o last
        ELSE last

\* copy_buffer_to_texture: what it does on the tensor's client and on the
\* encoder, in order.  A width that is no multiple of 64 is first copied
\* into a zeroed tensor of padded width, whose buffer is then the one read.
copy_buffer_to_texture(img, tex) ==
    LET width == img[1]
        height == img[2]
        row == div_ceil(width, 64) * 64
        padded == IF width % 64 # 0
                  THEN << [op |-> "zeros", shape |-> << height, row >>],
                          [op |-> "slice_assign", shape |-> << height, width >>] >>
                  ELSE << >>
    IN  padded \o
        << [op |-> "sync", type |-> "Flush"],
           [op |-> "get_resource",
            buffer |-> IF width % 64 # 0 THEN "padded" ELSE "img"],
           [op |-> "copy_buffer_to_texture", bytes_per_row |-> 4 * row,
            extent |-> << width, height >>, texture |-> tex.serial] >>

\* `dirty` with the widths compared and the heights not.
dirty_WidthOnly(st, size) ==
    IF IsSome(st) THEN Unwrap(st).texture.size[1] # size[1] ELSE TRUE

\* `dirty`: no state yet, or a texture of another width or height.
dirty(st, size) ==
    IF IsSome(st)
    THEN Unwrap(st).texture.size[1] # size[1] \/ Unwrap(st).texture.size[2] # size[2]
    ELSE TRUE

\* create_texture: a new texture of the size, the n-th made.
create_texture(size, n) == [size |-> size, serial |-> n]

\* BurnTexture::update_texture.  The renderer maps each TextureId it has
\* registered to the texture it shows for it.
UpdateTexture ==
    /\ Len(tensors) < MaxCalls
    /\ \E size \in TensorSizes :
          LET tex == create_texture(size, textures + 1)
              after ==
                 IF dirty(state, size)
                 THEN IF IsSome(state)
                      THEN Some([Unwrap(state) EXCEPT !.texture = tex])
                      ELSE Some([texture |-> tex, id |-> Len(renderer) + 1])
                 ELSE state
          IN  /\ state' = after
              /\ textures' = IF dirty(state, size) THEN textures + 1 ELSE textures
              /\ renderer' =
                    IF dirty(state, size)
                    THEN IF IsSome(state)
                         THEN [renderer EXCEPT ![Unwrap(state).id] = tex.serial]
                         ELSE Append(renderer, tex.serial)
                    ELSE renderer
              /\ tensors' = Append(tensors, size)
              /\ IF IsSome(after)
                 THEN /\ recorded' = copy_buffer_to_texture(size, Unwrap(after).texture)
                      /\ returned' = Append(returned, Unwrap(after).id)
                 ELSE /\ recorded' = << >>
                      /\ returned' = Append(returned, "unreachable")
    /\ UNCHANGED << importer, dispatch, viewer, train >>

TextureInit ==
    /\ subsample_points = None
    /\ Created
    /\ Idle

TextureNext == UpdateTexture

TextureSpec == TextureInit /\ [][TextureNext]_vars

----------------------------------------------------------------------------
(* Properties of the importer.                                             *)

\* The positions of the snapshots in the stream, and their sizes.
SnapshotAt == {k \in 1 .. Len(stream) : stream[k].ok}
N(k) == num_splats(stream[k].splats)

\* The stride in force: Some(S) gives S, None accepts every record.
Stride == IF IsSome(subsample_points) THEN Unwrap(subsample_points) ELSE 1
CeilDiv(a, b) == (a + b - 1) \div b

\* Every present optional vector of collection c has the length of means.
SameLengths(c) ==
    /\ IsSome(c.rotation) => Len(Unwrap(c.rotation)) = Len(c.means)
    /\ IsSome(c.scales) => Len(Unwrap(c.scales)) = Len(c.means)
    /\ IsSome(c.opacity) => Len(Unwrap(c.opacity)) = Len(c.means)

\* C1: in every snapshot of the stream, intermediate or final, rotations,
\* scales and opacities (when present) have the length N of means, and
\* there is one per-splat SH count K for the whole load such that every
\* present SH vector has length N * K.
C1_ParallelVectors ==
    /\ \A k \in SnapshotAt : SameLengths(stream[k].splats)
    /\ \E K \in 0 .. (3 * MaxRest + 3) :
          \A k \in SnapshotAt :
             IsSome(stream[k].splats.sh_coeffs)
                => Len(Unwrap(stream[k].splats.sh_coeffs)) = N(k) * K

\* C1 witness: a strided load of the full property list has delivered an
\* intermediate snapshot of at least two splats and then the final one.
C1_Witness ==
    /\ \E k \in SnapshotAt : ~stream[k].final /\ N(k) >= 2
    /\ stream[Len(stream)].ok /\ stream[Len(stream)].final
    /\ header.names = FullNames
    /\ IsSome(subsample_points) /\ Stride = 2

\* C2 (as claimed): each snapshot holds strictly more splats than the
\* snapshot emitted before it.
C2_StrictlyIncreasing ==
    \A k \in SnapshotAt : \A l \in SnapshotAt : k < l => N(k) < N(l)

\* C3 (as claimed): a load of two update periods of records without
\* sub-sampling yields exactly two snapshots, of update_every and of
\* 2 * update_every splats.
C3_TwoSnapshots ==
    (result = "ok" /\ header.vertex /\ header.count = 2 * update_every
        /\ subsample_points = None)
    => /\ Len(stream) = 2
       /\ N(1) = update_every
       /\ N(2) = 2 * update_every

\* The last item of the stream is the final snapshot.
HasFinal == Len(stream) >= 1 /\ stream[Len(stream)].ok /\ stream[Len(stream)].final

\* x, y, z of record r as the payload holds them.
FileMean(r) == << FileValue(r, 1), FileValue(r, 2), FileValue(r, 3) >>

\* C4: with a stride S >= 1 over a vertex element of `count` records the
\* final snapshot holds ceil(count / S) splats, the p-th of them being the
\* record at index (p - 1) * S of the payload, and all `count` records have
\* been read from the byte source.
C4_StrideSelects ==
    (HasFinal /\ IsSome(subsample_points) /\ Stride >= 1)
    => LET c == stream[Len(stream)].splats
       IN  /\ Len(c.means) = CeilDiv(header.count, Stride)
           /\ \A p \in 1 .. Len(c.means) : c.means[p] = FileMean((p - 1) * Stride)
           /\ \A p \in 1 .. Len(c.means) : (p - 1) * Stride < header.count
           /\ nread = header.count

\* C4 witness: stride 3 over 10 records gave the final snapshot of the
\* records 0, 3, 6, 9.
C4_Witness ==
    /\ HasFinal
    /\ subsample_points = Some(3)
    /\ header.count = 10
    /\ stream[Len(stream)].splats.means
          = << FileMean(0), FileMean(3), FileMean(6), FileMean(9) >>

\* C5 (as claimed): a stream that ended without an error has emitted at
\* least one snapshot, and its last element is the final collection with
\* at least one splat.
C5_EndsWithFinal ==
    result = "ok" => (HasFinal /\ N(Len(stream)) >= 1)

\* C6: a vertex element that lacks x, y or z makes the stream fail before
\* any record is read: the stream is the one error, no snapshot, and the
\* generator is over.
C6_MissingProperty ==
    (header.vertex /\ \E p \in {"x", "y", "z"} : p \notin header.names)
    => /\ result = "err"
       /\ pc = "done"
       /\ stream = << Err("Invalid splat ply. Missing properties!") >>
       /\ nread = 0

\* C6 witness: a header with x and y but no z has failed.
C6_Witness ==
    /\ header.vertex
    /\ header.names \cap Required = {"x", "y"}
    /\ result = "err"

\* C7: the stream fails with "No splats found" only with no splat appended,
\* a declared count of 0 and no snapshot emitted; a vertex element with
\* x, y, z that declares 0 records always ends so; and when the record loop
\* has run to its end, no splat has been appended exactly when the declared
\* count is 0.
C7_Empty ==
    /\ (Len(stream) >= 1 /\ stream[Len(stream)].err = "No splats found")
          => (Len(means) = 0 /\ header.count = 0 /\ SnapshotAt = {})
    /\ (pc = "done" /\ header.vertex /\ Required \subseteq header.names
           /\ header.count = 0)
          => stream = << Err("No splats found") >>
    /\ (pc \in {"loop", "tail", "done"} /\ header.vertex /\ i = header.count
           /\ Required \subseteq header.names)
          => (Len(means) = 0 <=> header.count = 0)

\* C7 witness: a load with a stride of 2 has failed with "No splats found".
C7_Witness ==
    /\ stream = << Err("No splats found") >>
    /\ subsample_points = Some(2)

\* An error in the stream is its last item and the generator is over.
ErrorIsLast ==
    \A k \in 1 .. Len(stream) :
       ~stream[k].ok => (k = Len(stream) /\ result = "err" /\ pc = "done")

\* C8: the stream holds at most one error, which is its last item; once
\* the stream has failed nothing changes any more (no snapshot, no record
\* read), and every step leaves the items already yielded as they were.
C8_FirstErrorAborts ==
    /\ []ErrorIsLast
    /\ [][/\ result # "err"
          /\ Len(stream') >= Len(stream)
          /\ SubSeq(stream', 1, Len(stream)) = stream]_vars

\* C8 witness: a snapshot was delivered, then the stream failed.
C8_Witness ==
    /\ Len(stream) >= 2
    /\ stream[1].ok
    /\ ~stream[Len(stream)].ok
    /\ result = "err"

\* C9: when the byte source ends before `count` records were read, the
\* stream has ended with an error as its last item, fewer than `count`
\* records were read, and every snapshot delivered is an intermediate one
\* holding only records read before the end.
C9_Truncated ==
    source_ended
    => /\ result = "err"
       /\ pc = "done"
       /\ Len(stream) >= 1 /\ ~stream[Len(stream)].ok
       /\ nread < header.count
       /\ \A k \in SnapshotAt : ~stream[k].final /\ N(k) <= nread

\* C9 witness: a big-endian source ended after an intermediate snapshot.
C9_Witness ==
    /\ source_ended
    /\ header.encoding = "BinaryBigEndian"
    /\ SnapshotAt # {}

\* The f_rest values of record r as the payload holds them (channel-major,
\* 0 where the header declares no f_rest_j), their number, and the DC triple.
FileRest(r, j) == IF j \in header.rest THEN FileValue(r, 20 + j) ELSE 0
RestLen == IF header.rest = {} THEN 0 ELSE Max(header.rest) + 1
FileDc(r, ch) ==
    IF "red" \in header.names THEN rgb_to_sh(FileUChar(r, 15 + ch))
    ELSE IF "f_dc_0" \in header.names THEN FileValue(r, 12 + ch)
    ELSE 0

\* The SH vector of collection c is, per splat p (the record p * Stride),
\* the DC triple followed by rest[ch * K + co] at offset 3 + 3 * co + ch.
Interleaved(c, K) ==
    LET sh == Unwrap(c.sh_coeffs)
        W == 3 + 3 * K
    IN  /\ Len(sh) = Len(c.means) * W
        /\ \A p \in 0 .. (Len(c.means) - 1) : \A ch \in 0 .. 2 :
              /\ sh[p * W + ch + 1] = FileDc(p * Stride, ch)
              /\ \A co \in 0 .. (K - 1) :
                    sh[p * W + 3 + 3 * co + ch + 1] = FileRest(p * Stride, ch * K + co)

\* C10: when the records carry 3 * K rest values (channel-major), the SH
\* vector of every snapshot is the concatenation, per accepted record, of
\* dc0, dc1, dc2 and then rest[c], rest[K + c], rest[2K + c] for c < K.
C10_Interleave ==
    \A k \in SnapshotAt :
       (IsSome(stream[k].splats.sh_coeffs) /\ RestLen % 3 = 0)
          => Interleaved(stream[k].splats, RestLen \div 3)

\* C10 witness: a final snapshot of at least two splats with K = 3
\* (f_rest_0..8), taken with stride 2.
C10_Witness ==
    /\ HasFinal
    /\ IsSome(stream[Len(stream)].splats.sh_coeffs)
    /\ RestLen = 9
    /\ N(Len(stream)) >= 2
    /\ subsample_points = Some(2)

\* C11: in every snapshot of a load an optional vector is present exactly
\* when its sentinel property is declared in the vertex element: scales
\* with scale_0, rotations with rot_0, opacities with opacity, the SH
\* vector with f_dc_0 or red.  Presence is thus the same in all snapshots.
C11_Presence ==
    \A k \in SnapshotAt :
       LET c == stream[k].splats
       IN  /\ IsSome(c.scales) <=> "scale_0" \in header.names
           /\ IsSome(c.rotation) <=> "rot_0" \in header.names
           /\ IsSome(c.opacity) <=> "opacity" \in header.names
           /\ IsSome(c.sh_coeffs) <=> ("f_dc_0" \in header.names \/ "red" \in header.names)
           /\ Len(c.means) >= 1

\* C11 witness: a header with red but no f_dc_0 (and with rot_0, without
\* scale_0 and opacity) has given a final snapshot.
C11_Witness ==
    /\ HasFinal
    /\ header.names = Required \cup {"red", "rot_0"}
    /\ IsSome(stream[Len(stream)].splats.sh_coeffs)
    /\ ~IsSome(stream[Len(stream)].splats.scales)

\* The generator is inside the `for i in 0..element.count` loop.
InLoop == pc \in {"loop", "yielded", "read"} /\ i < header.count

\* C17 as stated: a step taken inside the record loop suspends only at the
\* cooperative yield or at an await on the byte source.
C17_TwoSuspensions ==
    [][InLoop => await' \in {"yield_now", "read"}]_vars

\* C17 amended: a step taken inside the record loop suspends at the
\* cooperative yield (only when i is a multiple of yield_every), at an
\* await on the byte source, or at the emit of an intermediate snapshot
\* (only when the update test of iteration i succeeds), nowhere else.
C17_ThreeSuspensions ==
    [][InLoop => /\ await' \in {"yield_now", "read", "emit"}
                 /\ await' = "yield_now" => i % yield_every = 0
                 /\ await' = "emit" => UpdateDue(i)]_vars

\* C17 witness: the loop is suspended at the emit of an intermediate
\* snapshot, after it has yielded and read records.
C17_Witness ==
    /\ InLoop
    /\ await = "emit"
    /\ nread >= 1
    /\ ~stream[Len(stream)].final

\* C18: every rotation stored in an emitted snapshot is a unit quaternion,
\* i.e. the quotient of a quaternion by its non-zero length.
C18_UnitRotations ==
    \A k \in SnapshotAt :
       LET r == stream[k].splats.rotation
       IN  IsSome(r) => \A j \in 1 .. Len(Unwrap(r)) : Unwrap(r)[j].len2 > 0

\* C19: with a stride set, two successive intermediate snapshots are
\* update_every appended records apart.
C19_ByAppended ==
    \A k \in SnapshotAt :
       (/\ IsSome(subsample_points)
        /\ k + 1 \in SnapshotAt
        /\ ~stream[k + 1].final)
       => N(k + 1) - N(k) = update_every

\* The vertex element declares between 1 and update_every - 1 records.
SmallLoad == header.vertex /\ header.count \in 1 .. update_every - 1

\* C20: a load of between 1 and update_every - 1 records never emits an
\* intermediate snapshot, and when it ends well its stream is exactly one
\* snapshot, the final one, holding the records the stride selects (one
\* record gives N = 1).
C20_OneSnapshot ==
    SmallLoad =>
       /\ \A k \in SnapshotAt : stream[k].final
       /\ result = "ok" =>
             /\ Len(stream) = 1
             /\ HasFinal
             /\ N(1) = CeilDiv(header.count, Stride)
             /\ header.count = 1 => N(1) = 1

\* C20 witness: a load of update_every - 1 records has ended well.
C20_Witness ==
    /\ SmallLoad
    /\ header.count = update_every - 1
    /\ result = "ok"
    /\ N(1) = update_every - 1

----------------------------------------------------------------------------
(* Properties of the kernel dispatch.                                      *)

\* C12: the grid submitted by execute is the component-wise ceiling of
\* executions / WORKGROUP_SIZE: on each axis grid * W >= E and
\* (grid - 1) * W < E; (1920, 1080, 1) over (16, 16, 1) gives (120, 68, 1).
\* The submitted workgroup size is the kernel's.
C12_DispatchGrid ==
    \A k \in 1 .. Len(submitted) :
       LET E == Unwrap(call).executions
           W == Unwrap(kernel).WORKGROUP_SIZE
           grid == submitted[k].kernel.work_group
       IN  /\ submitted[k].kernel.workgroup_size = W
           /\ \A a \in 1 .. 3 :
                 /\ grid[a] = CeilDiv(E[a], W[a])
                 /\ grid[a] * W[a] >= E[a]
                 /\ (grid[a] - 1) * W[a] < E[a]
           /\ (E = << 1920, 1080, 1 >> /\ W = << 16, 16, 1 >>) => grid = << 120, 68, 1 >>

\* C12 witness: (1920, 1080, 1) has been dispatched over (16, 16, 1).
C12_Witness ==
    /\ IsSome(call)
    /\ Unwrap(call).executions = << 1920, 1080, 1 >>
    /\ Unwrap(kernel).WORKGROUP_SIZE = << 16, 16, 1 >>
    /\ Len(submitted) = 1
    /\ submitted[1].kernel.work_group = << 120, 68, 1 >>

\* C13: a call of execute makes exactly one submission; its bindings are
\* the reads in order, then the writes in order, preceded by the binding of
\* the one uniform buffer uploaded by the call when the uniform type is not
\* zero-sized; a zero-sized uniform type makes no upload.  Nothing is
\* submitted or uploaded before a call.
C13_BindingOrder ==
    IF IsSome(call)
    THEN LET c == Unwrap(call)
             self == Unwrap(kernel)
             reads == c.read_handles
             writes == c.write_handles
         IN  /\ Len(submitted) = 1
             /\ IF self.size_of_Uniforms # 0
                THEN /\ created = << c.uniforms >>
                     /\ submitted[1].bindings =
                           << [buffer |-> "created", id |-> 1] >> \o reads \o writes
                     /\ Len(submitted[1].bindings) = 1 + Len(reads) + Len(writes)
                ELSE /\ created = << >>
                     /\ submitted[1].bindings = reads \o writes
                     /\ Len(submitted[1].bindings) = Len(reads) + Len(writes)
    ELSE submitted = << >> /\ created = << >>

\* C13 witness: a kernel with uniforms has been executed with two reads and
\* two writes, one buffer being both read and written.
C13_Witness ==
    /\ IsSome(call)
    /\ Unwrap(kernel).size_of_Uniforms # 0
    /\ Unwrap(call).read_handles = << Handle(2), Handle(1) >>
    /\ Unwrap(call).write_handles = << Handle(3), Handle(1) >>
    /\ Len(submitted[1].bindings) = 5

\* The define RASTER_U32, in ASCII codes.
RASTER_U32 == << 82, 65, 83, 84, 69, 82, 95, 85, 51, 50 >>

\* C14: the defines given to shader composition are the upper-cased names
\* of the true flags, each mapped to Bool(true), and nothing else: none for
\* a kernel without flags, RASTER_U32 alone for Rasterize::new(true), none
\* for Rasterize::new(false).
C14_ShaderDefines ==
    \A j \in 1 .. Len(composed) :
       LET self == Unwrap(kernel)
           on == {f \in 1 .. Len(self.fields) : self.values[f]}
       IN  /\ Cardinality(composed[j]) = Cardinality(on)
           /\ \A e \in composed[j] : e[2] = Bool(TRUE)
           /\ self.fields = << >> => composed[j] = {}
           /\ self.name = "Rasterize" =>
                 composed[j] = IF self.values[1]
                               THEN {<< RASTER_U32, Bool(TRUE) >>}
                               ELSE {}

\* C14 witness: Rasterize::new(true) has been composed.
C14_Witness ==
    /\ Len(composed) >= 1
    /\ Unwrap(kernel).name = "Rasterize"
    /\ Unwrap(kernel).values[1]
    /\ composed[1] = {<< RASTER_U32, Bool(TRUE) >>}

----------------------------------------------------------------------------
(* Properties of the viewer's load.                                        *)

\* The task is alive: the generators and the sender it owns exist.
TaskAlive == task \in {"running", "sending"}

\* The collection being built: the accumulators exist from the header to
\* the final emit, which moves them into the final snapshot.
Building ==
    IF TaskAlive /\ vpc = "loading" /\ pc \in {"loop", "yielded", "read"} THEN 1 ELSE 0

\* The snapshots in the channel.
Queued == Cardinality({k \in 1 .. Len(queue) : queue[k].type = "Splats"})

\* The snapshots between the importer and the channel: emitted by the
\* importer and not yet made a message, or held by the pending send.
InFlight ==
    IF TaskAlive
    THEN Cardinality({k \in SnapshotAt : k > Taken})
         + (IF task = "sending" /\ Held.type = "Splats" THEN 1 ELSE 0)
    ELSE 0

Live == Building + Queued + InFlight

\* C15 as stated: at every moment of a load at most two snapshots are live
\* on the producer side.
C15_TwoLive == Live <= 2

\* C15 amended: at every moment of a load at most three snapshots are live
\* on the producer side (the collection being built, one in the channel,
\* one held by the blocked send), the channel never holds more than one
\* message, and the importer does not run while a snapshot it has emitted
\* waits to enter the channel.
C15_ThreeLive ==
    /\ [](Live <= 3 /\ Len(queue) <= Capacity /\ Queued <= 1 /\ InFlight <= 1)
    /\ [][(task = "sending" \/ Taken < Len(stream)) => UNCHANGED importer]_vars

\* C15 witness: the importer is in its loop, a snapshot is in the channel
\* and a later snapshot is held by the blocked send.
C15_Witness ==
    /\ receiver = "open"
    /\ Building = 1
    /\ Queued = 1
    /\ task = "sending"
    /\ Held.type = "Splats"
    /\ Held.item = queue[1].item + 1

\* C16: once the receiver is dropped at record index d, no record beyond
\* the next yield point is parsed: the loop's index stays within
\* yield_every of d.
C16_HaltsAtNextYield ==
    IsSome(dropped_at) => i <= Unwrap(dropped_at) + yield_every

----------------------------------------------------------------------------
(* Further properties of the importer.                                     *)

IsPrefix(s, t) == Len(s) <= Len(t) /\ \A j \in 1 .. Len(s) : s[j] = t[j]
OptionPrefix(a, b) ==
    /\ IsSome(a) <=> IsSome(b)
    /\ IsSome(a) => IsPrefix(Unwrap(a), Unwrap(b))

\* C21: of two consecutive snapshots of a load the earlier one's means, and
\* every present vector of it, is a prefix of the same vector of the later
\* one: lengths never decrease and an emitted splat keeps its place and
\* its values.
C21_Prefix ==
    \A k \in SnapshotAt :
       (k + 1) \in SnapshotAt =>
          LET c == stream[k].splats
              d == stream[k + 1].splats
          IN  /\ IsPrefix(c.means, d.means)
              /\ OptionPrefix(c.rotation, d.rotation)
              /\ OptionPrefix(c.scales, d.scales)
              /\ OptionPrefix(c.opacity, d.opacity)
              /\ OptionPrefix(c.sh_coeffs, d.sh_coeffs)
              /\ N(k) <= N(k + 1)

\* C21 witness: a snapshot of at least two splats with every optional
\* vector is followed by a larger one.
C21_Witness ==
    \E k \in SnapshotAt :
       /\ (k + 1) \in SnapshotAt
       /\ N(k) >= 2
       /\ N(k + 1) > N(k)
       /\ header.names = FullNames

\* The SH values the splats of collection c hold each.
ShPerSplat(c) == Len(Unwrap(c.sh_coeffs)) \div Len(c.means)

\* C22: every appended splat adds 3 + 3 * K values to the SH vector, with
\* K the ceiling of (largest f_rest index + 1) / 3.
C22_CeilingOfRest ==
    \A k \in SnapshotAt :
       LET c == stream[k].splats
       IN  IsSome(c.sh_coeffs) =>
              Len(Unwrap(c.sh_coeffs)) = Len(c.means) * (3 + 3 * CeilDiv(RestLen, 3))

\* C23: n_sh_coeffs of the header phase is 3 + largest f_rest index + 1
\* (3 without f_rest properties) and is the number of SH values every
\* appended splat adds to the SH vector.
C23_CapacityMatches ==
    \A k \in SnapshotAt :
       LET c == stream[k].splats
       IN  IsSome(c.sh_coeffs) =>
              /\ n_sh_coeffs(header) = 3 + RestLen
              /\ Len(Unwrap(c.sh_coeffs)) = Len(c.means) * n_sh_coeffs(header)

----------------------------------------------------------------------------
(* Properties of the messages of a load.                                   *)

\* The positions of the messages of a type among those process_loop produced.
OutOf(type) == {k \in 1 .. Len(out) : out[k].type = type}

C26_DoneLoading ==
    (/\ picked = "ply"
     /\ task = "finished"
     /\ result = "ok"
     /\ receiver = "open"
     /\ queue = << >>)
    => \E k \in 1 .. Len(received) :
          /\ received[k].type = "DoneLoading"
          /\ \A j \in 1 .. Len(received) : received[j].type = "Splats" => j < k

----------------------------------------------------------------------------
(* Properties of the train channel.                                        *)

\* The step is a call of send_train_message.
SendTrainStep == try_sent'.flip # try_sent.flip

\* C27: try_send on the train channel never returns Full, so the
\* unreachable!() of send_train_message is never reached; a call without a
\* load started does nothing; a call on a closed channel is ignored and
\* leaves the channel as it was; any other call puts its message at the end
\* of the queue, however many messages wait there.
C27_NeverFull ==
    /\ [](try_sent.result # "Full")
    /\ [][SendTrainStep =>
            /\ ~IsSome(sender) =>
                  /\ try_sent'.result = "noop"
                  /\ UNCHANGED train_channel
            /\ (IsSome(sender) /\ train_channel.closed) =>
                  /\ try_sent'.result = "Closed"
                  /\ UNCHANGED train_channel
            /\ (IsSome(sender) /\ ~train_channel.closed) =>
                  /\ try_sent'.result = "Ok"
                  /\ \E message \in TrainMessages :
                        train_channel'.queue = Append(train_channel.queue, message)]_vars

\* C27 witness: a message has been sent onto a queue of MaxTrain - 1
\* waiting messages.
C27_Witness ==
    /\ try_sent.result = "Ok"
    /\ Len(train_channel.queue) = MaxTrain
    /\ train_channel.queue[1] # train_channel.queue[2]

----------------------------------------------------------------------------
(* Properties of the texture.                                              *)

\* The positions in `recorded` of the operations named op.
Recorded(op) == {k \in 1 .. Len(recorded) : recorded[k].op = op}

\* C24: a call of copy_buffer_to_texture makes one Flush sync, and makes it
\* before it fetches the buffer with get_resource and before it records
\* the copy, after the operations that fill a padded tensor, whether the
\* width is padded or not.
C24_FlushFirst ==
    tensors # << >> =>
       /\ Cardinality(Recorded("get_resource")) = 1
       /\ Cardinality(Recorded("copy_buffer_to_texture")) = 1
       /\ \E f \in Recorded("sync") :
             /\ recorded[f].type = "Flush"
             /\ \A k \in Recorded("get_resource") \cup Recorded("copy_buffer_to_texture") :
                   f < k
             /\ \A k \in Recorded("zeros") \cup Recorded("slice_assign") : k < f
       /\ \A g \in Recorded("get_resource") : \A c \in Recorded("copy_buffer_to_texture") :
             g < c

\* C24 witness: a tensor whose width is a multiple of 64 has been copied
\* without padding, after one that was padded.
C24_Witness ==
    /\ Len(tensors) >= 2
    /\ tensors[Len(tensors)][1] % 64 = 0
    /\ tensors[Len(tensors) - 1][1] % 64 # 0
    /\ Recorded("zeros") = {}
    /\ Recorded("sync") = {1}

\* C28: over any calls of update_texture the TextureId is registered once,
\* on the first call, and every call returns it; the texture is made anew
\* exactly on the first call and on every call whose tensor differs in
\* width or height from the one before, so that after each call the
\* texture has the size of the call's tensor and is the one the renderer
\* shows for the id; the unreachable!() is never reached.
C28_OneIdRightSize ==
    /\ Len(returned) = Len(tensors)
    /\ IF tensors = << >>
       THEN state = None /\ renderer = << >> /\ textures = 0
       ELSE /\ IsSome(state)
            /\ Len(renderer) = 1
            /\ \A k \in 1 .. Len(returned) : returned[k] = Unwrap(state).id
            /\ Unwrap(state).texture.size = tensors[Len(tensors)]
            /\ renderer[Unwrap(state).id] = Unwrap(state).texture.serial
            /\ textures =
                  1 + Cardinality({k \in 2 .. Len(tensors) : tensors[k] # tensors[k - 1]})

\* C28 witness: three calls, the second with the size of the first, the
\* third with the same width and another height: two textures, one id.
C28_Witness ==
    /\ Len(tensors) = 3
    /\ tensors[1] = tensors[2]
    /\ tensors[3][1] = tensors[2][1]
    /\ tensors[3][2] # tensors[2][2]
    /\ textures = 2
    /\ returned = << 1, 1, 1 >>

====
